---- MODULE Spec2Model ----
(***************************************************************************)
(* The thirtymall monitor: fetch -> extract -> diff -> notify -> persist.  *)
(* Two programs share the pipeline: monitor.py (single keyword, a session  *)
(* per fetch, SIGALRM watchdog) and monitor_multi.py (several searches on  *)
(* one shared session, no watchdog).  A behaviour is a succession of runs  *)
(* of one of the two programs against its snapshot file.                   *)
(***************************************************************************)
EXTENDS Integers, Sequences, FiniteSets, TLC

(***************************************************************************)
(* Bounds of the model.                                                    *)
(***************************************************************************)
MaxLen == 2        \* candidates a page yields per search
MaxRuns == 2       \* runs executed in succession
HashMod == 5       \* size of the id space (stands for the 16^8 md5 prefixes)

(***************************************************************************)
(* Program constants.                                                      *)
(***************************************************************************)
RunBudget == 300       \* signal.alarm(300) in main
StartupBudget == 30    \* signal.alarm(30) around webdriver.Chrome

(***************************************************************************)
(* Text is a sequence of character codes.  1,2 spell the first keyword,    *)
(* 3,4 the second one, 9 is the underscore of the multi-keyword id.        *)
(***************************************************************************)
Underscore == <<9>>

\* monitor_multi.py SEARCHES: the two active entries (line 43, a note left
\* without its comment mark, is read as the comment it was meant to be).
SEARCHES ==
  << [name |-> <<1, 2>>, keyword |-> <<1, 2>>, url |-> <<7, 1>>],
     [name |-> <<3, 4>>, keyword |-> <<3, 4>>, url |-> <<7, 3>>] >>

NSearch == Len(SEARCHES)

SearchIdx == 1 .. NSearch

NoSearch == <<>>

\* hashlib.md5(s.encode()).hexdigest()[:8]: a deterministic, non-injective
\* function of the whole string.
\* The digest of s[lo .. hi] and 2^(hi - lo + 1), both modulo HashMod; the
\* digest of a text is h(empty) = 0, h(t + c) = (2 * h(t) + c) % HashMod,
\* computed by halves.
RECURSIVE Digest(_, _, _)
Digest(s, lo, hi) ==
  IF lo > hi THEN [h |-> 0, p |-> 1 % HashMod]
  ELSE IF lo = hi THEN [h |-> s[lo] % HashMod, p |-> 2 % HashMod]
  ELSE LET mid == (lo + hi) \div 2
           a == Digest(s, lo, mid)
           b == Digest(s, mid + 1, hi)
       IN [h |-> (a.h * b.p + b.h) % HashMod, p |-> (a.p * b.p) % HashMod]

Md5Prefix(s) == Digest(s, 1, Len(s)).h

\* monitor.py: product_id = md5(title + link)[:8]
SingleProductId(title, link) == Md5Prefix(title \o link)

\* monitor_multi.py: product_id = md5(f"{search_name}_{title}")[:8]
MultiProductId(search_name, title) == Md5Prefix(search_name \o Underscore \o title)

SingleProduct(c) ==
  [id |-> SingleProductId(c.title, c.link), search |-> NoSearch,
   title |-> c.title, link |-> c.link]

MultiProduct(search_name, c) ==
  [id |-> MultiProductId(search_name, c.title), search |-> search_name,
   title |-> c.title, link |-> c.link]

(***************************************************************************)
(* What the upstream page yields: per search, the (title, link) values of  *)
(* the candidates in page order.  In monitor.py a candidate without an     *)
(* anchor has the empty link; in monitor_multi.py it has the search url.   *)
(***************************************************************************)
SingleCandidates ==
  { [title |-> <<1, 2>>, link |-> <<>>],
    [title |-> <<1, 2>>, link |-> <<5>>],
    [title |-> <<1, 2, 5>>, link |-> <<>>] }

MultiCandidates(i) ==
  { [title |-> SEARCHES[i].keyword \o t, link |-> SEARCHES[i].url] : t \in {<<>>, <<5>>} }

SeqsUpTo(S, n) == UNION { [1 .. k -> S] : k \in 0 .. n }

SinglePages == SeqsUpTo(SingleCandidates, MaxLen)

SingleExtract(cands) == [k \in 1 .. Len(cands) |-> SingleProduct(cands[k])]

MultiExtract(i, cands) ==
  [k \in 1 .. Len(cands) |-> MultiProduct(SEARCHES[i].name, cands[k])]


(***************************************************************************)
(* The extraction pass over one rendered page.  Text is a sequence of      *)
(* character codes: 0 is a blank, 8 a line break, 5 any other character.   *)
(***************************************************************************)
MaxElems == 3      \* elements the two scans find on a page, together

TitleCap == 200          \* title[:200]
SecondaryThreshold == 5  \* monitor.py: "if len(products) < 5"
LinkLimit == 50          \* monitor.py: product_links[:50]
ScanLimit == 30          \* monitor_multi.py: elements[:30]
MinTextLen == 10         \* monitor_multi.py: "len(text) < 10"
MuiThreshold == 3        \* monitor_multi.py: "if len(products) < 3"
MuiLimit == 20           \* monitor_multi.py: items[:20]

Blank == 0

LineBreak == 8

\* monitor.py: the keyword literal and the url main passes to get_products.
Keyword == <<1, 2>>

TargetUrl == <<7, 1>>

Pad(n) == [k \in 1 .. n |-> 5]

\* s[:n]
Take(s, n) == SubSeq(s, 1, IF Len(s) < n THEN Len(s) ELSE n)

\* kw in s
Contains(s, kw) ==
  \E i \in 1 .. Len(s) - Len(kw) + 1 : SubSeq(s, i, i + Len(kw) - 1) = kw

IsSpace(c) == c \in {Blank, LineBreak}

\* s.strip()
Strip(s) ==
  LET solid == { i \in DOMAIN s : ~IsSpace(s[i]) }
  IN IF solid = {} THEN <<>>
     ELSE SubSeq(s, CHOOSE i \in solid : \A j \in solid : i <= j,
                    CHOOSE i \in solid : \A j \in solid : j <= i)

\* ' '.join(s.split()): the words of s joined by one blank each.
Normalize(s) ==
  LET t == Strip(s)
      cell(i) == [c |-> IF IsSpace(t[i]) THEN Blank ELSE t[i],
                  keep |-> ~IsSpace(t[i]) \/ ~IsSpace(t[i - 1])]
      kept(x) == x.keep
      cells == SelectSeq([i \in 1 .. Len(t) |-> cell(i)], kept)
  IN [i \in 1 .. Len(cells) |-> cells[i].c]

\* s.split('\n')
RECURSIVE SplitLines(_)
SplitLines(s) ==
  LET breaks == { i \in DOMAIN s : s[i] = LineBreak }
  IN IF breaks = {} THEN <<s>>
     ELSE LET b == CHOOSE i \in breaks : \A j \in breaks : i <= j
          IN <<SubSeq(s, 1, b - 1)>> \o SplitLines(SubSeq(s, b + 1, Len(s)))

\* next((l for l in lines if kw in l), "")
FirstLineWith(lines, kw) ==
  LET hits == { i \in DOMAIN lines : Contains(lines[i], kw) }
  IN IF hits = {} THEN <<>>
     ELSE lines[CHOOSE i \in hits : \A j \in hits : i <= j]

\* What a scan has built so far: the records, the dedup set, and whether
\* the scan was left before its end.
NewScan == [products |-> <<>>, processed |-> {}, stopped |-> FALSE]

\* A handler that gives up the scan on the first failing candidate.
candidate_failure_aborts(st) == [st EXCEPT !.stopped = TRUE]

\* "except Exception: continue" around the body of each loop: the candidate
\* leaves the records alone and the loop goes on.
candidate_failed(st) == st

(***************************************************************************)
(* monitor.py get_products_selenium.  A Method 1 element has its visible   *)
(* text, whether an anchor was found for it (itself, one of 5 ancestors,   *)
(* or the first anchor inside one), that anchor's href (empty when the     *)
(* attribute is missing) and the place where touching it raises, if any.   *)
(***************************************************************************)
Method1Step(st, e) ==
  IF e.fault = "stale_text" THEN candidate_failed(st)
  ELSE LET title == Strip(e.text)
       IN IF title = <<>> \/ ~Contains(title, Keyword) THEN st
          ELSE IF e.fault = "no_parent" THEN candidate_failed(st)
          ELSE LET link == IF e.link_element THEN e.href ELSE <<>>
               IN IF e.link_element /\ link \in st.processed THEN st
                  ELSE LET st1 == IF e.link_element
                                    THEN [st EXCEPT !.processed = @ \cup {link}]
                                    ELSE st
                       IN IF e.link_element /\ e.fault = "stale_container"
                            THEN candidate_failed(st1)
                            ELSE [st1 EXCEPT !.products =
                                    Append(@, SingleProduct(
                                      [title |-> Take(Normalize(title), TitleCap),
                                       link |-> link]))]

RECURSIVE Method1(_, _, _)
Method1(elements, k, st) ==
  IF k > Len(elements) \/ st.stopped THEN st
  ELSE Method1(elements, k + 1, Method1Step(st, elements[k]))

\* Method 2: the product links, each with its text and href.
Method2Step(st, l) ==
  IF l.fault = "stale_text" THEN candidate_failed(st)
  ELSE LET link_text == Strip(l.text)
       IN IF Contains(link_text, Keyword) /\ l.href \notin st.processed
            THEN [st EXCEPT !.processed = @ \cup {l.href},
                            !.products =
                              Append(@, SingleProduct(
                                [title |-> Take(Normalize(link_text), TitleCap),
                                 link |-> l.href]))]
            ELSE st

RECURSIVE Method2(_, _, _)
Method2(links, k, st) ==
  IF k > Len(links) \/ st.stopped THEN st
  ELSE Method2(links, k + 1, Method2Step(st, links[k]))

\* The pass of monitor.py after the page has loaded: the debug dump in its
\* own try/except, Method 1, and Method 2 when Method 1 gave fewer than 5
\* records.  A scan left through the outer handlers returns [].
get_products_selenium(p, dump_ok) ==
  LET m1 == Method1(p.elements, 1, NewScan)
      m2 == IF ~m1.stopped /\ Len(m1.products) < SecondaryThreshold
              THEN Method2(Take(p.links, LinkLimit), 1, m1)
              ELSE m1
  IN IF m2.stopped THEN <<>> ELSE m2.products

(***************************************************************************)
(* monitor_multi.py get_products.  An element of the text scan has its     *)
(* visible text, the first non-empty href found on the walk through 4      *)
(* ancestors (empty when there is none) and the place where touching it    *)
(* raises, if any.  An item of the MUI scan has its text.                  *)
(***************************************************************************)
MainScanStep(i, st, e) ==
  IF e.fault = "stale_text" THEN candidate_failed(st)
  ELSE LET text == Strip(e.text)
       IN IF text = <<>> \/ Len(text) < MinTextLen \/ text \in st.processed THEN st
          ELSE LET st1 == [st EXCEPT !.processed = @ \cup {text}]
                   line == FirstLineWith(SplitLines(text), SEARCHES[i].keyword)
                   title == Take(Strip(line), TitleCap)
                   link == IF e.fault = "no_parent" \/ e.href = <<>>
                             THEN SEARCHES[i].url ELSE e.href
               IN IF title = <<>> THEN st1
                  ELSE [st1 EXCEPT !.products =
                          Append(@, MultiProduct(SEARCHES[i].name,
                                                 [title |-> title, link |-> link]))]

RECURSIVE MainScan(_, _, _, _)
MainScan(i, elements, k, st) ==
  IF k > Len(elements) \/ st.stopped THEN st
  ELSE MainScan(i, elements, k + 1, MainScanStep(i, st, elements[k]))

MuiStep(i, st, item) ==
  IF item.fault = "stale_text" THEN candidate_failed(st)
  ELSE IF Contains(item.text, SEARCHES[i].keyword) /\ item.text \notin st.processed
    THEN LET st1 == [st EXCEPT !.processed = @ \cup {item.text}]
             title == Take(FirstLineWith(SplitLines(item.text), SEARCHES[i].keyword),
                           TitleCap)
         IN IF title = <<>> THEN st1
            ELSE [st1 EXCEPT !.products =
                    Append(@, MultiProduct(SEARCHES[i].name,
                                           [title |-> title, link |-> SEARCHES[i].url]))]
    ELSE st

RECURSIVE MuiScan(_, _, _, _)
MuiScan(i, items, k, st) ==
  IF k > Len(items) \/ st.stopped THEN st
  ELSE MuiScan(i, items, k + 1, MuiStep(i, st, items[k]))

\* The pass of monitor_multi.py after the page has loaded.  The debug file
\* is written inside the function's one try block: a failing write goes to
\* "except Exception", which returns the records collected so far (none).
multi_get_products(i, p, dump_ok) ==
  IF ~dump_ok THEN <<>>
  ELSE IF ~p.has_keyword THEN <<>>
  ELSE LET main == MainScan(i, Take(p.elements, ScanLimit), 1, NewScan)
           mui == IF ~main.stopped /\ Len(main.products) < MuiThreshold
                    THEN MuiScan(i, Take(p.links, MuiLimit), 1, main)
                    ELSE main
       IN mui.products

(***************************************************************************)
(* The pages the extraction is applied to.                                 *)
(***************************************************************************)
Href1 == <<7, 6>>

Href2 == <<7, 7>>

Element(text, link_element, href, fault) ==
  [text |-> text, link_element |-> link_element, href |-> href, fault |-> fault]

\* Elements matched by //*[contains(text(), '버터')].
SingleElements ==
  { Element(Keyword, FALSE, <<>>, "none"),
    Element(Keyword, TRUE, <<>>, "none"),
    Element(<<Blank>> \o Keyword \o <<Blank, LineBreak, 5, Blank>>, TRUE, Href1, "none"),
    Element(Pad(TitleCap) \o Keyword, TRUE, Href2, "none"),
    Element(Keyword, TRUE, Href1, "stale_text"),
    Element(Keyword, TRUE, Href2, "stale_container"),
    Element(Keyword, FALSE, <<>>, "no_parent") }

\* Anchors matched by a[href*='product'], ...
SingleLinks ==
  { Element(Keyword, TRUE, Href1, "none"),
    Element(Keyword \o <<Blank, 5>>, TRUE, Href2, "none"),
    Element(Keyword, TRUE, Href2, "stale_text") }

\* A card text of ten characters that begins with the keyword.
CardLine(i) == SEARCHES[i].keyword \o Pad(MinTextLen - Len(SEARCHES[i].keyword))

\* Elements matched by //*[contains(text(), keyword)] on the page of search i.
MultiElements(i) ==
  { Element(CardLine(i), TRUE, Href1, "none"),
    Element(<<5, 5, 5, LineBreak>> \o CardLine(i), FALSE, <<>>, "none"),
    Element(Pad(TitleCap) \o SEARCHES[i].keyword, TRUE, Href1, "none"),
    Element(CardLine(i), TRUE, Href1, "stale_text"),
    Element(CardLine(i) \o <<5>>, TRUE, Href1, "no_parent") }

\* Boxes matched by div[class*='MuiBox-root'].
MultiItems(i) ==
  { Element(CardLine(i), FALSE, <<>>, "none"),
    Element(CardLine(i) \o <<LineBreak, 5>>, FALSE, <<>>, "none"),
    Element(CardLine(i), FALSE, <<>>, "stale_text") }

\* target 0 is the page of monitor.py, target i the page of SEARCHES[i].
\* The pages of one target: the two scans find at most MaxElems elements
\* together.
PagesOf(target, elems, others) ==
  UNION { { [target |-> target, has_keyword |-> TRUE, elements |-> e, links |-> l] :
              l \in SeqsUpTo(others, MaxElems - Len(e)) } :
          e \in SeqsUpTo(elems, MaxElems) }

\* (A page with matching elements has the keyword in its source.)
Pages ==
  PagesOf(0, SingleElements, SingleLinks)
  \cup UNION { PagesOf(i, MultiElements(i), MultiItems(i)) : i \in SearchIdx }
  \cup { [target |-> i, has_keyword |-> FALSE, elements |-> <<>>, links |-> <<>>] :
           i \in SearchIdx }

NoPage == [target |-> 0, has_keyword |-> FALSE, elements |-> <<>>, links |-> <<>>]

Pending == [status |-> "pending", products |-> <<>>]

Returned(products) == [status |-> "returned", products |-> products]

(***************************************************************************)
(* The snapshot file: missing, unparseable, or a JSON list of records.     *)
(***************************************************************************)
Absent == [kind |-> "absent", records |-> <<>>]

Corrupt == [kind |-> "corrupt", records |-> <<>>]

ListFile(records) == [kind |-> "list", records |-> records]

\* A load that lets a parse error escape.
load_reraising(f, readable) ==
  IF f.kind = "absent" THEN [raised |-> FALSE, value |-> <<>>]
  ELSE IF ~readable THEN [raised |-> FALSE, value |-> <<>>]
  ELSE IF f.kind = "corrupt" THEN [raised |-> TRUE, value |-> <<>>]
  ELSE [raised |-> FALSE, value |-> f.records]

\* monitor.py load_previous_products: FileNotFoundError and every other
\* Exception give []; readable says whether open/read succeeded.
load_previous_products(f, readable) ==
  IF f.kind = "absent" THEN [raised |-> FALSE, value |-> <<>>]
  ELSE IF ~readable \/ f.kind = "corrupt" THEN [raised |-> FALSE, value |-> <<>>]
  ELSE [raised |-> FALSE, value |-> f.records]

\* A load that looks for the snapshot under another name.
multi_load_other_file(f, readable) == [raised |-> FALSE, value |-> <<>>]

\* monitor_multi.py load_previous_products: os.path.exists, bare except.
multi_load_previous_products(f, readable) ==
  IF f.kind = "absent" THEN [raised |-> FALSE, value |-> <<>>]
  ELSE IF ~readable \/ f.kind = "corrupt" THEN [raised |-> FALSE, value |-> <<>>]
  ELSE [raised |-> FALSE, value |-> f.records]

\* The write outcomes of open(..., 'w') followed by json.dump.
SaveOutcomes == {"ok", "open_failed", "dump_failed"}

\* A save that appends to the records already in the file.
save_merging_previous(products, f, outcome) ==
  CASE outcome = "ok" -> ListFile(f.records \o products)
    [] outcome = "open_failed" -> f
    [] OTHER -> Corrupt

\* monitor.py save_current_products: the file after the call.  A failed
\* open leaves the file alone, a failed dump leaves a truncated file; both
\* are logged and swallowed.
save_current_products(products, f, outcome) ==
  CASE outcome = "ok" -> ListFile(products)
    [] outcome = "open_failed" -> f
    [] OTHER -> Corrupt

\* A save that keeps the records already in the file.
save_products_merging(products, f, outcome) ==
  CASE outcome = "ok" -> ListFile(f.records \o products)
    [] outcome = "open_failed" -> f
    [] OTHER -> Corrupt

\* monitor_multi.py save_products.
save_products(products, f, outcome) ==
  CASE outcome = "ok" -> ListFile(products)
    [] outcome = "open_failed" -> f
    [] OTHER -> Corrupt

(***************************************************************************)
(* Diff engine.                                                            *)
(***************************************************************************)
IdSet(records) == { records[k].id : k \in DOMAIN records }

\* A diff that compares whole records ("p not in previous").
find_new_by_equality(cur, prev) ==
  LET previous_records == { prev[k] : k \in DOMAIN prev }
      keep(p) == p \notin previous_records
  IN SelectSeq(cur, keep)

\* monitor.py find_new_products
find_new_products(cur, prev) ==
  LET previous_ids == IdSet(prev)
      keep(p) == p.id \notin previous_ids
  IN SelectSeq(cur, keep)

\* monitor_multi.py main: previous_ids over the whole previous snapshot, one
\* filter per search; a search without new records has no entry (here <<>>).
new_products_by_search(products_by_search, prev) ==
  LET previous_ids == IdSet(prev)
      keep(p) == p.id \notin previous_ids
  IN [i \in SearchIdx |-> SelectSeq(products_by_search[i], keep)]

RECURSIVE Flatten(_, _)
Flatten(f, i) == IF i > NSearch THEN <<>> ELSE f[i] \o Flatten(f, i + 1)

\* total_new = sum(len(prods) for prods in new_products_by_search.values())
total_new(by_search) == Len(Flatten(by_search, 1))

(***************************************************************************)
(* Notifier.                                                               *)
(***************************************************************************)
Transports == {"ok", "http_error", "exception"}

\* A notifier that lets a transport exception escape.
send_telegram_notification_raising(new_products, bot_token, chat_id, transport) ==
  IF new_products = <<>> THEN [posts |-> 0, delivery |-> "none", raised |-> FALSE]
  ELSE IF ~bot_token \/ ~chat_id
    THEN [posts |-> 0, delivery |-> "unconfigured", raised |-> FALSE]
  ELSE [posts |-> 1, delivery |-> transport, raised |-> transport = "exception"]

\* monitor.py send_telegram_notification: no-op on an empty list or when a
\* credential is missing; otherwise one POST whose failure is swallowed.
send_telegram_notification(new_products, bot_token, chat_id, transport) ==
  IF new_products = <<>> THEN [posts |-> 0, delivery |-> "none", raised |-> FALSE]
  ELSE IF ~bot_token \/ ~chat_id
    THEN [posts |-> 0, delivery |-> "unconfigured", raised |-> FALSE]
  ELSE [posts |-> 1, delivery |-> transport, raised |-> FALSE]

\* A notifier that only checks the token.
send_telegram_token_only(by_search, token, chat_id, transport) ==
  IF \A i \in SearchIdx : by_search[i] = <<>>
    THEN [posts |-> 0, delivery |-> "none", raised |-> FALSE]
  ELSE IF ~token
    THEN [posts |-> 0, delivery |-> "unconfigured", raised |-> FALSE]
  ELSE [posts |-> 1, delivery |-> transport, raised |-> FALSE]

\* monitor_multi.py send_telegram
send_telegram(by_search, token, chat_id, transport) ==
  IF \A i \in SearchIdx : by_search[i] = <<>>
    THEN [posts |-> 0, delivery |-> "none", raised |-> FALSE]
  ELSE IF ~token \/ ~chat_id
    THEN [posts |-> 0, delivery |-> "unconfigured", raised |-> FALSE]
  ELSE [posts |-> 1, delivery |-> transport, raised |-> FALSE]

(***************************************************************************)
(* Message composition.  A message is kept by its parts: the count of the  *)
(* headline, the items listed, and the omitted-items suffix (the number it *)
(* states, or nothing).                                                    *)
(***************************************************************************)
MaxNew == 11       \* new records handed to the notifier of monitor.py
MaxNewPer == 4     \* new records per search handed to that of monitor_multi.py

ItemCap == 10          \* monitor.py: new_products[:10]
ItemTitleCap == 100    \* monitor.py: product['title'][:100]
SearchItemCap == 3     \* monitor_multi.py: products[:3]
SearchTitleCap == 60   \* monitor_multi.py: p['title'][:60]

\* A suffix that is already written when the list is exactly full.
omitted_suffix_from_cap(n, cap) == IF n >= cap THEN <<n - cap>> ELSE <<>>

\* "if len(new_products) > 10: message += ... {len(new_products) - 10} more"
omitted_suffix(n, cap) == IF n > cap THEN <<n - cap>> ELSE <<>>

\* monitor.py send_telegram_notification: the message text.
compose_message(new_products) ==
  [count |-> Len(new_products),
   items |-> LET shown == Take(new_products, ItemCap)
             IN [k \in 1 .. Len(shown) |->
                   [title |-> Take(shown[k].title, ItemTitleCap),
                    link |-> shown[k].link]],
   more |-> omitted_suffix(Len(new_products), ItemCap)]

NoSection == [count |-> 0, items |-> <<>>, more |-> <<>>]

\* monitor_multi.py send_telegram: one section per search with new
\* records, in SEARCHES order, and the link of the first new record.
multi_compose_message(by_search) ==
  [sections |->
     [i \in SearchIdx |->
        IF by_search[i] = <<>> THEN NoSection
        ELSE [count |-> Len(by_search[i]),
              items |-> LET shown == Take(by_search[i], SearchItemCap)
                        IN [k \in 1 .. Len(shown) |->
                              Take(shown[k].title, SearchTitleCap)],
              more |-> omitted_suffix(Len(by_search[i]), SearchItemCap)]],
   link |-> Flatten(by_search, 1)[1].link]

\* The new records the notifier is given: k records, the one at position
\* long with a title of full length, each with its own link or title.
SingleNews(n, long) ==
  [k \in 1 .. n |->
     SingleProduct([title |-> IF k = long THEN Keyword \o Pad(TitleCap - 2) ELSE Keyword,
                    link |-> <<7, k>>])]

MultiNews(i, n, long) ==
  [k \in 1 .. n |->
     MultiProduct(SEARCHES[i].name,
                  [title |-> SEARCHES[i].keyword \o <<k>> \o
                               (IF k = long THEN Pad(TitleCap - 3) ELSE <<>>),
                   link |-> SEARCHES[i].url])]

Outboxes ==
  { [target |-> 0, news |-> SingleNews(n, long)] :
      n \in 1 .. MaxNew, long \in 0 .. 2 }
  \cup ({ [target |-> 1,
           news |-> <<MultiNews(1, n1, long), MultiNews(2, n2, long)>>] :
           n1 \in 0 .. MaxNewPer, n2 \in 0 .. MaxNewPer, long \in 0 .. 2 }
        \ { [target |-> 1, news |-> << <<>>, <<>> >>] })

NoOutbox == [target |-> 0, news |-> <<>>]

NoMessage == [count |-> 0, items |-> <<>>, more |-> <<>>]

(***************************************************************************)
(* Small decisions of the two main functions.                              *)
(***************************************************************************)

\* A main without the early return.
always_has_products(cur) == FALSE

\* monitor.py main: "if not current_products: return"
no_current_products(cur) == cur = <<>>

\* monitor_multi.py main: "if not all_current_products: return 1"
no_products_in_any_search(all) == all = <<>>

\* monitor.py get_products_selenium, finally: "if driver: driver.quit()"
quit_driver(s) == IF s = "open" THEN "closed" ELSE s

\* A finally that forgets the driver.
multi_quit_skipped(s) == s

\* monitor_multi.py main, finally: "if driver: driver.quit()"
multi_quit_driver(s) == IF s = "open" THEN "closed" ELSE s

\* A get_products that returns whatever the rendering mode gave.
selenium_result_returned(products) == TRUE

\* monitor.py get_products: "if products: return products" after the
\* rendering mode; otherwise the function goes on to the requests mode.
selenium_succeeded(products) == products # <<>>

\* A loop that stops at the first search that failed.
loop_breaking_on_failure(i, failed) ==
  IF failed \/ i = NSearch THEN "check" ELSE "search"

\* monitor_multi.py main: "for search_config in SEARCHES:"; get_products
\* has caught the failure, so the loop goes on to the next entry and leaves
\* only after the last one.
after_search(i, failed) == IF i = NSearch THEN "check" ELSE "search"

\* os.getenv of the two credentials, as the notifier sees them.
Credentials == { [token |-> t, chat |-> c] : t \in BOOLEAN, c \in BOOLEAN }

Unread == "unread"

CredsSeen(c) ==
  IF c.token /\ c.chat THEN "both"
  ELSE IF c.token THEN "no_chat"
  ELSE IF c.chat THEN "no_token"
  ELSE "neither"

(***************************************************************************)
(* State.                                                                  *)
(***************************************************************************)
VARIABLES
  mode,                \* "single" (monitor.py) or "multi" (monitor_multi.py)
  run,                 \* number of the current run
  pc,                  \* position of the run
  seleniumAvailable,   \* SELENIUM_AVAILABLE, set at import
  sigHandler,          \* installed SIGALRM handler
  alarm,               \* seconds of the pending alarm, 0 when none
  session,             \* rendering session: "none", "open", "closed"
  file,                \* the snapshot file
  current,             \* current_products / all_current_products
  products_by_search,  \* monitor_multi.py main
  idx,                 \* monitor_multi.py main: position in SEARCHES
  previous,            \* the loaded snapshot
  new_products,        \* monitor.py main
  new_by_search,       \* monitor_multi.py main: new_products_by_search
  outcome,             \* how the run ended
  exitCode,            \* process exit code, -1 while running
  fileOps,             \* accesses of the snapshot file in this run
  fileAtStart,         \* the snapshot file when the run began
  loadFailed,          \* the load of this run found no usable file
  saveOutcome,         \* outcome of this run's write, "none" before it
  notifyCalls,         \* invocations of the notifier in this run
  notifyArg,           \* what the notifier was given
  creds,               \* the credentials the notifier found
  posts,               \* outbound requests of this run
  delivery,            \* what became of the notification
  fired,               \* the run-level watchdog fired in this run
  afterFire,           \* pipeline steps taken after the watchdog fired
  lastCurrent,         \* extraction of the preceding run, kept while this
                       \* run's extraction can still equal it
  sameAsLast,          \* this run's extraction equals the preceding run's
  lastSave,            \* saveOutcome of the preceding run
  attempts,            \* monitor.py get_products: the fetch modes tried
  selResult,           \* monitor.py: what the rendering mode gave
  visited,             \* monitor_multi.py main: the searches processed
  anyFailed,           \* monitor_multi.py: a search ended in its except
                       \* (kept until main has diffed what the searches gave)
  trackedHist,         \* the tracked product in the snapshots saved so far
  page,                \* the rendered page an extraction pass is applied to
  dump_ok,             \* whether the write of the debug page dump succeeds
  extraction,          \* the extraction pass: pending, or what it returned
  outbox,              \* the new records a notifier is given
  message              \* the message composed from them

vars ==
  << mode, run, pc, seleniumAvailable, sigHandler, alarm, session, file, current,
     products_by_search, idx, previous, new_products, new_by_search, outcome,
     exitCode, fileOps, fileAtStart, loadFailed, saveOutcome, notifyCalls,
     notifyArg, creds, posts, delivery, fired, afterFire, lastCurrent,
     sameAsLast, lastSave, attempts, selResult, visited, anyFailed,
     trackedHist, page, dump_ok, extraction, outbox, message >>

\* The variables of a run of one of the two programs.
mainVars ==
  << mode, run, pc, seleniumAvailable, sigHandler, alarm, session, file,
     current, products_by_search, idx, previous, new_products, new_by_search,
     outcome, exitCode, fileOps, fileAtStart, loadFailed, saveOutcome,
     notifyCalls, notifyArg, creds, posts, delivery, fired, afterFire,
     lastCurrent, sameAsLast, lastSave, attempts, selResult, visited,
     anyFailed, trackedHist >>

\* The variables of the pure functions checked on their own.
pure == << page, dump_ok, extraction, outbox, message >>

proc == << mode, run, seleniumAvailable, fileAtStart, lastSave >>

hist == << lastCurrent, sameAsLast >>

fetchLog == << attempts, selResult >>

searchLog == << visited, anyFailed >>

signals == << sigHandler, alarm >>

multiVars == << products_by_search, idx, new_by_search >>

notifier == << notifyCalls, notifyArg, creds, posts, delivery >>

store == << file, fileOps, loadFailed, saveOutcome >>

watch == << fired, afterFire >>

\* The product followed through the snapshots: the first candidate of the
\* page (of the first search in monitor_multi.py).
TrackedId ==
  IF mode = "single" THEN SingleProductId(<<1, 2>>, <<>>)
  ELSE MultiProductId(SEARCHES[1].name, SEARCHES[1].keyword)

\* trackedHist after a save of products: "saved" when the extraction written
\* holds the tracked product, "dropped" when an extraction without it was
\* written after one with it.  (A snapshot found at the first run was
\* written by an earlier run, from that run's extraction.)
SnapshotHistory(h, products, o) ==
  IF o # "ok" THEN h
  ELSE IF TrackedId \in IdSet(products) THEN "saved"
  ELSE IF h = "saved" THEN "dropped"
  ELSE h

NoProducts == [i \in SearchIdx |-> <<>>]

\* A snapshot an earlier run may have left behind.
InitialFiles(m) ==
  {Absent, Corrupt} \cup
  IF m = "single"
    THEN { ListFile(SingleExtract(c)) : c \in SeqsUpTo(SingleCandidates, 1) }
    ELSE UNION { { ListFile(MultiExtract(i, c)) : c \in SeqsUpTo(MultiCandidates(i), 1) } :
                 i \in SearchIdx }

\* The state of a process that has just been started.
Fresh ==
  /\ pc = "start"
  /\ sigHandler = "default"
  /\ alarm = 0
  /\ session = "none"
  /\ current = <<>>
  /\ products_by_search = NoProducts
  /\ idx = 1
  /\ previous = <<>>
  /\ new_products = <<>>
  /\ new_by_search = NoProducts
  /\ outcome = "running"
  /\ exitCode = -1
  /\ fileOps = <<>>
  /\ loadFailed = FALSE
  /\ saveOutcome = "none"
  /\ notifyCalls = 0
  /\ notifyArg = <<>>
  /\ creds = Unread
  /\ posts = 0
  /\ delivery = "none"
  /\ fired = FALSE
  /\ afterFire = {}
  /\ attempts = <<>>
  /\ selResult = "none"
  /\ visited = <<>>
  /\ anyFailed = FALSE

\* The same, of the next state.
FreshNext ==
  /\ pc' = "start"
  /\ sigHandler' = "default"
  /\ alarm' = 0
  /\ session' = "none"
  /\ current' = <<>>
  /\ products_by_search' = NoProducts
  /\ idx' = 1
  /\ previous' = <<>>
  /\ new_products' = <<>>
  /\ new_by_search' = NoProducts
  /\ outcome' = "running"
  /\ exitCode' = -1
  /\ fileOps' = <<>>
  /\ loadFailed' = FALSE
  /\ saveOutcome' = "none"
  /\ notifyCalls' = 0
  /\ notifyArg' = <<>>
  /\ creds' = Unread
  /\ posts' = 0
  /\ delivery' = "none"
  /\ fired' = FALSE
  /\ afterFire' = {}
  /\ attempts' = <<>>
  /\ selResult' = "none"
  /\ visited' = <<>>
  /\ anyFailed' = FALSE

Init ==
  /\ mode \in {"single", "multi"}
  /\ run = 1
  /\ seleniumAvailable \in BOOLEAN
  /\ file \in InitialFiles(mode)
  /\ fileAtStart = file
  /\ lastCurrent = <<>>
  /\ sameAsLast = FALSE
  /\ lastSave = "none"
  /\ trackedHist = SnapshotHistory("never", file.records, "ok")
  /\ Fresh
  /\ page = NoPage
  /\ dump_ok = TRUE
  /\ extraction = Pending
  /\ outbox = NoOutbox
  /\ message = NoMessage

\* The steps a run takes after the watchdog fired are remembered.
Note(step) == IF fired THEN afterFire \cup {step} ELSE afterFire

\* The extraction of this run is known to be cur: compare it with the
\* preceding run's.
Extracted(cur) ==
  /\ sameAsLast' = (sameAsLast /\ cur = lastCurrent)
  /\ lastCurrent' = <<>>

\* The extraction of this run begins with cur.
ExtractedSoFar(cur) ==
  LET same == /\ sameAsLast
              /\ Len(cur) <= Len(lastCurrent)
              /\ SubSeq(lastCurrent, 1, Len(cur)) = cur
  IN /\ sameAsLast' = same
     /\ lastCurrent' = IF same THEN lastCurrent ELSE <<>>

(***************************************************************************)
(* monitor.py                                                              *)
(***************************************************************************)

\* main: signal.signal(SIGALRM, timeout_handler); signal.alarm(300)
MainArm ==
  /\ mode = "single" /\ pc = "start"
  /\ sigHandler' = "main"
  /\ alarm' = RunBudget
  /\ pc' = "main_try"
  /\ UNCHANGED << fetchLog, searchLog, trackedHist, pure, proc, hist, session, current, multiVars, previous,
                  new_products, outcome, exitCode, store, notifier, watch >>

\* main calls get_products, which picks the first strategy.
GetProducts ==
  /\ mode = "single" /\ pc = "main_try"
  /\ pc' = IF seleniumAvailable THEN "sel_setup" ELSE "requests"
  /\ attempts' = IF seleniumAvailable THEN Append(attempts, "selenium") ELSE attempts
  /\ UNCHANGED << selResult, searchLog, trackedHist, pure, proc, hist, signals, session, current, multiVars, previous,
                  new_products, outcome, exitCode, store, notifier, watch >>

\* get_products_selenium up to the start of the browser: the startup
\* handler and its alarm replace whatever was installed and pending.
SelSetup ==
  /\ mode = "single" /\ pc = "sel_setup"
  /\ sigHandler' = "startup"
  /\ alarm' = StartupBudget
  /\ pc' = "chrome"
  /\ UNCHANGED << fetchLog, searchLog, trackedHist, pure, proc, hist, session, current, multiVars, previous,
                  new_products, outcome, exitCode, store, notifier, watch >>

\* webdriver.Chrome(...) returns or raises; both branches run signal.alarm(0).
\* A failure is caught in get_products_selenium, which returns [], and
\* get_products goes on to the requests strategy.
ChromeStart ==
  /\ mode = "single" /\ pc = "chrome"
  /\ \E ok \in BOOLEAN :
       /\ session' = IF ok THEN "open" ELSE quit_driver(session)
       /\ pc' = IF ok THEN "page_load" ELSE "requests"
       /\ selResult' = IF ok THEN selResult ELSE "failed"
  /\ alarm' = 0
  /\ UNCHANGED << attempts, searchLog, trackedHist, pure, proc, hist, sigHandler, current, multiVars, previous,
                  new_products, outcome, exitCode, store, notifier, watch >>

\* The 30 s alarm fires while the browser starts: TimeoutError("Chrome
\* startup timeout"), re-raised after signal.alarm(0), caught at the end of
\* get_products_selenium.
StartupAlarm ==
  /\ mode = "single" /\ pc = "chrome"
  /\ alarm > 0 /\ sigHandler = "startup"
  /\ alarm' = 0
  /\ session' = quit_driver(session)
  /\ pc' = "requests"
  /\ selResult' = "failed"
  /\ UNCHANGED << attempts, searchLog, trackedHist, pure, proc, hist, sigHandler, current, multiVars, previous,
                  new_products, outcome, exitCode, store, notifier, watch >>

\* driver.get (with one retry) and the waits; an exception ends the
\* function through its finally, which quits the driver.
PageLoad ==
  /\ mode = "single" /\ pc = "page_load"
  /\ \E ok \in BOOLEAN :
       /\ session' = IF ok THEN session ELSE quit_driver(session)
       /\ pc' = IF ok THEN "extract" ELSE "requests"
       /\ selResult' = IF ok THEN selResult ELSE "failed"
  /\ afterFire' = Note("fetch")
  /\ UNCHANGED << attempts, searchLog, trackedHist, pure, proc, hist, signals, current, multiVars, previous,
                  new_products, outcome, exitCode, store, notifier, fired >>

\* The two extraction methods; the finally quits the driver whether the
\* records are returned or an exception turns the result into [].  An empty
\* result sends get_products to the requests strategy.
SelExtract ==
  /\ mode = "single" /\ pc = "extract"
  /\ \E cands \in SinglePages, ok \in BOOLEAN :
       LET products == IF ok THEN SingleExtract(cands) ELSE <<>>
       IN /\ current' = products
          /\ selResult' = IF ~ok THEN "failed"
                          ELSE IF products = <<>> THEN "empty" ELSE "found"
          /\ IF selenium_succeeded(products)
               THEN pc' = "check" /\ Extracted(products)
               ELSE pc' = "requests" /\ UNCHANGED hist
  /\ session' = quit_driver(session)
  /\ UNCHANGED << attempts, searchLog, trackedHist, pure, proc, signals, multiVars, previous, new_products, outcome,
                  exitCode, store, notifier, watch >>

\* get_products_requests returns [] whatever the response; get_products
\* then returns [].
RequestsFallback ==
  /\ mode = "single" /\ pc = "requests"
  /\ current' = <<>>
  /\ Extracted(<<>>)
  /\ pc' = "check"
  /\ afterFire' = Note("fallback")
  /\ attempts' = Append(attempts, "requests")
  /\ UNCHANGED << selResult, searchLog, trackedHist, pure, proc, signals, session, multiVars, previous, new_products,
                  outcome, exitCode, store, notifier, fired >>

\* main: "if not current_products: return", through the finally.
SingleEmpty ==
  /\ mode = "single" /\ pc = "check"
  /\ no_current_products(current)
  /\ alarm' = 0
  /\ outcome' = "empty"
  /\ exitCode' = 0
  /\ pc' = "done"
  /\ UNCHANGED << fetchLog, searchLog, trackedHist, pure, proc, hist, sigHandler, session, current, multiVars, previous,
                  new_products, store, notifier, watch >>

\* main: previous_products = load_previous_products().  (An exception here
\* would reach main's "except Exception" and the finally.)
SingleLoad ==
  /\ mode = "single" /\ pc = "check"
  /\ ~no_current_products(current)
  /\ \E readable \in BOOLEAN :
       LET r == load_previous_products(file, readable)
       IN /\ previous' = r.value
          /\ loadFailed' = (file.kind # "list" \/ ~readable)
          /\ IF r.raised
               THEN /\ pc' = "done" /\ outcome' = "error" /\ exitCode' = 0
                    /\ alarm' = 0
               ELSE /\ pc' = "diff" /\ UNCHANGED << outcome, exitCode, alarm >>
  /\ fileOps' = Append(fileOps, "read")
  /\ afterFire' = Note("load")
  /\ UNCHANGED << fetchLog, searchLog, trackedHist, pure, proc, hist, sigHandler, session, current, multiVars,
                  new_products, file, saveOutcome, notifier, fired >>

\* main: new_products = find_new_products(current_products, previous_products)
SingleDiff ==
  /\ mode = "single" /\ pc = "diff"
  /\ new_products' = find_new_products(current, previous)
  /\ pc' = "notify"
  /\ afterFire' = Note("diff")
  /\ UNCHANGED << fetchLog, searchLog, trackedHist, pure, proc, hist, signals, session, current, multiVars, previous,
                  outcome, exitCode, store, notifier, fired >>

\* main: "if new_products: send_notification(new_products)", which calls
\* send_telegram_notification and prints the records.
SingleNotify ==
  /\ mode = "single" /\ pc = "notify"
  /\ new_products # <<>>
  /\ \E c \in Credentials, transport \in Transports :
       LET r == send_telegram_notification(new_products, c.token, c.chat, transport)
       IN /\ creds' = CredsSeen(c)
          /\ posts' = posts + r.posts
          /\ delivery' = r.delivery
          /\ IF r.raised
               THEN /\ pc' = "done" /\ outcome' = "error" /\ exitCode' = 0
                    /\ alarm' = 0
               ELSE /\ pc' = "save" /\ UNCHANGED << outcome, exitCode, alarm >>
  /\ notifyCalls' = notifyCalls + 1
  /\ notifyArg' = new_products
  /\ afterFire' = Note("notify")
  /\ UNCHANGED << fetchLog, searchLog, trackedHist, pure, proc, hist, sigHandler, session, current, multiVars, previous,
                  new_products, store, fired >>

\* main: else: print("No new products found")
SingleNoNews ==
  /\ mode = "single" /\ pc = "notify"
  /\ new_products = <<>>
  /\ pc' = "save"
  /\ UNCHANGED << fetchLog, searchLog, trackedHist, pure, proc, hist, signals, session, current, multiVars, previous,
                  new_products, outcome, exitCode, store, notifier, watch >>

\* main: save_current_products(current_products), then the finally.
SingleSave ==
  /\ mode = "single" /\ pc = "save"
  /\ \E o \in SaveOutcomes :
       /\ file' = save_current_products(current, file, o)
       /\ saveOutcome' = o
       /\ trackedHist' = SnapshotHistory(trackedHist, current, o)
  /\ fileOps' = Append(fileOps, "write")
  /\ afterFire' = Note("save")
  /\ alarm' = 0
  /\ outcome' = "completed"
  /\ exitCode' = 0
  /\ pc' = "done"
  /\ UNCHANGED << fetchLog, searchLog, pure, proc, hist, sigHandler, session, current, multiVars, previous,
                  new_products, loadFailed, notifier, fired >>

\* The run-level alarm fires where nothing below main catches it (main's
\* own statements, get_products outside its try blocks): main's
\* "except TimeoutError" prints, the finally cancels the alarm, and the
\* script ends normally, with exit code 0.
WatchdogAbort ==
  /\ mode = "single" /\ pc \in {"main_try", "requests", "check"}
  /\ alarm > 0 /\ sigHandler = "main"
  /\ fired' = TRUE
  /\ alarm' = 0
  /\ Extracted(current)
  /\ outcome' = "aborted"
  /\ exitCode' = 0
  /\ pc' = "done"
  /\ UNCHANGED << fetchLog, searchLog, trackedHist, pure, proc, sigHandler, session, current, multiVars, previous,
                  new_products, store, notifier, afterFire >>

\* The run-level alarm fires inside a try block of a fetch function: in
\* get_products_selenium before the startup handler is installed ("except
\* TimeoutError", return []), or in get_products_requests ("except
\* Exception", return []).  The run goes on with the empty result.
WatchdogSwallowed ==
  /\ mode = "single" /\ pc \in {"sel_setup", "requests"}
  /\ alarm > 0 /\ sigHandler = "main"
  /\ fired' = TRUE
  /\ alarm' = 0
  /\ current' = <<>>
  /\ session' = quit_driver(session)
  /\ IF pc = "sel_setup"
       THEN /\ pc' = "requests" /\ UNCHANGED hist
            /\ selResult' = "failed" /\ UNCHANGED attempts
       ELSE /\ pc' = "check" /\ Extracted(<<>>)
            /\ attempts' = Append(attempts, "requests") /\ UNCHANGED selResult
  /\ UNCHANGED << searchLog, trackedHist, pure, proc, sigHandler, multiVars, previous, new_products, outcome,
                  exitCode, store, notifier, afterFire >>

(***************************************************************************)
(* monitor_multi.py                                                        *)
(***************************************************************************)

\* The selenium imports fail: sys.exit(1) before main.
ImportFail ==
  /\ mode = "multi" /\ pc = "start"
  /\ ~seleniumAvailable
  /\ Extracted(current)
  /\ outcome' = "fatal"
  /\ exitCode' = 1
  /\ pc' = "done"
  /\ UNCHANGED << fetchLog, searchLog, trackedHist, pure, proc, signals, session, current, multiVars, previous,
                  new_products, store, notifier, watch >>

\* main: driver = setup_driver(); an exception goes to "except Exception",
\* return 1, with driver still None in the finally.
SetupDriver ==
  /\ mode = "multi" /\ pc = "start"
  /\ seleniumAvailable
  /\ \E ok \in BOOLEAN :
       IF ok
         THEN /\ session' = "open" /\ pc' = "search"
              /\ UNCHANGED << outcome, exitCode, hist >>
         ELSE /\ outcome' = "fatal" /\ exitCode' = 1 /\ pc' = "done"
              /\ session' = multi_quit_driver(session)
              /\ Extracted(current)
  /\ UNCHANGED << fetchLog, searchLog, trackedHist, pure, proc, signals, current, multiVars, previous, new_products,
                  store, notifier, watch >>

\* main's loop body: get_products(driver, search_config) returns the
\* records collected (all of them, or those collected before an exception),
\* which are appended to all_current_products and stored under the name.
Search ==
  /\ mode = "multi" /\ pc = "search"
  /\ \E cands \in SeqsUpTo(MultiCandidates(idx), MaxLen - Len(current)),
        failed \in BOOLEAN :
       LET products == MultiExtract(idx, cands)
       IN /\ current' = current \o products
          /\ products_by_search' = [products_by_search EXCEPT ![idx] = products]
          /\ anyFailed' = (anyFailed \/ failed)
          /\ pc' = after_search(idx, failed)
          /\ IF idx = NSearch
               THEN Extracted(current \o products)
               ELSE ExtractedSoFar(current \o products)
  /\ idx' = idx + 1
  /\ visited' = Append(visited, idx)
  /\ UNCHANGED << fetchLog, trackedHist, pure, proc, signals, session, previous, new_products, new_by_search,
                  outcome, exitCode, store, notifier, watch >>

\* main: "if not all_current_products: return 1", through the finally.
MultiEmpty ==
  /\ mode = "multi" /\ pc = "check"
  /\ no_products_in_any_search(current)
  /\ session' = multi_quit_driver(session)
  /\ outcome' = "empty"
  /\ exitCode' = 1
  /\ pc' = "done"
  /\ UNCHANGED << fetchLog, searchLog, trackedHist, pure, proc, hist, signals, current, multiVars, previous,
                  new_products, store, notifier, watch >>

\* main: previous = load_previous_products().  (An exception here would
\* reach "except Exception", return 1, and the finally.)
MultiLoad ==
  /\ mode = "multi" /\ pc = "check"
  /\ ~no_products_in_any_search(current)
  /\ \E readable \in BOOLEAN :
       LET r == multi_load_previous_products(file, readable)
       IN /\ previous' = r.value
          /\ loadFailed' = (file.kind # "list" \/ ~readable)
          /\ IF r.raised
               THEN /\ pc' = "done" /\ outcome' = "fatal" /\ exitCode' = 1
                    /\ session' = multi_quit_driver(session)
               ELSE /\ pc' = "diff" /\ UNCHANGED << outcome, exitCode, session >>
  /\ fileOps' = Append(fileOps, "read")
  /\ UNCHANGED << fetchLog, searchLog, trackedHist, pure, proc, hist, signals, current, multiVars, new_products, file,
                  saveOutcome, notifier, watch >>

\* main: previous_ids and the per-search filter.
MultiDiff ==
  /\ mode = "multi" /\ pc = "diff"
  /\ new_by_search' = new_products_by_search(products_by_search, previous)
  /\ pc' = "notify"
  /\ UNCHANGED << fetchLog, searchLog, trackedHist, pure, proc, hist, signals, session, current, products_by_search,
                  idx, previous, new_products, outcome, exitCode, store,
                  notifier, watch >>

\* main: "if total_new > 0: send_telegram(new_products_by_search)"
MultiNotify ==
  /\ mode = "multi" /\ pc = "notify"
  /\ total_new(new_by_search) > 0
  /\ \E c \in Credentials, transport \in Transports :
       LET r == send_telegram(new_by_search, c.token, c.chat, transport)
       IN /\ creds' = CredsSeen(c)
          /\ posts' = posts + r.posts
          /\ delivery' = r.delivery
          /\ IF r.raised
               THEN /\ pc' = "done" /\ outcome' = "fatal" /\ exitCode' = 1
                    /\ session' = multi_quit_driver(session)
               ELSE /\ pc' = "save" /\ UNCHANGED << outcome, exitCode, session >>
  /\ notifyCalls' = notifyCalls + 1
  /\ notifyArg' = new_by_search
  /\ anyFailed' = FALSE
  /\ UNCHANGED << fetchLog, visited, trackedHist, pure, proc, hist, signals, current, multiVars, previous,
                  new_products, store, watch >>

\* main: else: print("No new products in any search")
MultiNoNews ==
  /\ mode = "multi" /\ pc = "notify"
  /\ total_new(new_by_search) = 0
  /\ pc' = "save"
  /\ anyFailed' = FALSE
  /\ UNCHANGED << fetchLog, visited, trackedHist, pure, proc, hist, signals, session, current, multiVars, previous,
                  new_products, outcome, exitCode, store, notifier, watch >>

\* main: save_products(all_current_products), the summary, return 0,
\* and the finally, which quits the driver.
MultiSave ==
  /\ mode = "multi" /\ pc = "save"
  /\ \E o \in SaveOutcomes :
       /\ file' = save_products(current, file, o)
       /\ saveOutcome' = o
       /\ trackedHist' = SnapshotHistory(trackedHist, current, o)
  /\ fileOps' = Append(fileOps, "write")
  /\ session' = multi_quit_driver(session)
  /\ outcome' = "completed"
  /\ exitCode' = 0
  /\ pc' = "done"
  /\ UNCHANGED << fetchLog, searchLog, pure, proc, hist, signals, current, multiVars, previous,
                  new_products, loadFailed, notifier, watch >>

(***************************************************************************)
(* The scheduler starts the program again.                                 *)
(***************************************************************************)
NextRun ==
  /\ pc = "done" /\ run < MaxRuns
  /\ run' = run + 1
  /\ seleniumAvailable' \in BOOLEAN
  /\ lastCurrent' = current
  /\ sameAsLast' = TRUE
  /\ lastSave' = saveOutcome
  /\ fileAtStart' = file
  /\ FreshNext
  /\ UNCHANGED << mode, file, trackedHist, pure >>

Next ==
  \/ MainArm \/ GetProducts \/ SelSetup \/ ChromeStart \/ StartupAlarm
  \/ PageLoad \/ SelExtract \/ RequestsFallback \/ SingleEmpty \/ SingleLoad
  \/ SingleDiff \/ SingleNotify \/ SingleNoNews \/ SingleSave
  \/ WatchdogAbort \/ WatchdogSwallowed
  \/ ImportFail \/ SetupDriver \/ Search \/ MultiEmpty \/ MultiLoad
  \/ MultiDiff \/ MultiNotify \/ MultiNoNews \/ MultiSave
  \/ NextRun

Spec == Init /\ [][Next]_vars

(***************************************************************************)
(* The extraction pass on its own: a page and the fate of the debug dump   *)
(* are drawn, and the pass of the page's program is applied to them.       *)
(***************************************************************************)
\* The program of the given target, just started, with no snapshot.
Started(target) ==
  /\ mode = IF target = 0 THEN "single" ELSE "multi"
  /\ run = 1
  /\ seleniumAvailable = TRUE
  /\ file = Absent
  /\ fileAtStart = Absent
  /\ lastCurrent = <<>>
  /\ sameAsLast = FALSE
  /\ lastSave = "none"
  /\ trackedHist = "never"
  /\ Fresh

ExtractInit ==
  /\ page \in Pages
  /\ dump_ok \in BOOLEAN
  /\ extraction = Pending
  /\ outbox = NoOutbox
  /\ message = NoMessage
  /\ Started(page.target)

\* monitor.py: products = get_products_selenium(url), from the debug dump on.
ExtractSingle ==
  /\ page.target = 0 /\ extraction.status = "pending"
  /\ extraction' = Returned(get_products_selenium(page, dump_ok))
  /\ UNCHANGED << mainVars, page, dump_ok, outbox, message >>

\* monitor_multi.py: products = get_products(driver, search_config), from
\* the debug dump on.
ExtractMulti ==
  /\ page.target \in SearchIdx /\ extraction.status = "pending"
  /\ extraction' = Returned(multi_get_products(page.target, page, dump_ok))
  /\ UNCHANGED << mainVars, page, dump_ok, outbox, message >>

ExtractNext == ExtractSingle \/ ExtractMulti

ExtractSpec == ExtractInit /\ [][ExtractNext]_vars

(***************************************************************************)
(* Message composition on its own: the new records are drawn and the       *)
(* notifier of their program composes its message.                         *)
(***************************************************************************)
MessageInit ==
  /\ outbox \in Outboxes
  /\ message = NoMessage
  /\ page = NoPage
  /\ dump_ok = TRUE
  /\ extraction = Pending
  /\ Started(outbox.target)

\* monitor.py send_telegram_notification with both credentials set.
ComposeSingle ==
  /\ outbox.target = 0 /\ message = NoMessage
  /\ message' = compose_message(outbox.news)
  /\ UNCHANGED << mainVars, page, dump_ok, extraction, outbox >>

\* monitor_multi.py send_telegram with both credentials set.
ComposeMulti ==
  /\ outbox.target = 1 /\ message = NoMessage
  /\ message' = multi_compose_message(outbox.news)
  /\ UNCHANGED << mainVars, page, dump_ok, extraction, outbox >>

MessageNext == ComposeSingle \/ ComposeMulti

MessageSpec == MessageInit /\ [][MessageNext]_vars

(***************************************************************************)
(* Properties.                                                             *)
(***************************************************************************)
Single == mode = "single"

\* The new records of the run, in either mode.
AllNew == IF Single THEN new_products ELSE Flatten(new_by_search, 1)

\* What the run hands to the notifier.
NewValue == IF Single THEN new_products ELSE new_by_search

Range(s) == { s[k] : k \in DOMAIN s }

\* res is cur without the records whose id is in ids, order kept: the j-th
\* element of res is the element of cur at the j-th kept position.
IsFilter(res, cur, ids) ==
  LET kept == { k \in DOMAIN cur : cur[k].id \notin ids }
      nth(j) == CHOOSE k \in kept : Cardinality({ m \in kept : m <= k }) = j
  IN /\ Len(res) = Cardinality(kept)
     /\ \A j \in DOMAIN res : res[j] = cur[nth(j)]

\* The alarm of the run-level watchdog is never pending once a run has
\* extracted records.
AlarmOnlyEarly == (alarm > 0 /\ sigHandler = "main") => current = <<>>

\* C1: the diff step yields exactly the records of current whose id is not
\* in the id set of the whole loaded snapshot, in current's order (per search
\* in multi-keyword mode), and changes neither current nor previous.
C1_DiffExact ==
  [][ pc = "diff" =>
        /\ current' = current
        /\ previous' = previous
        /\ products_by_search' = products_by_search
        /\ ~loadFailed => previous = fileAtStart.records
        /\ IF Single
             THEN IsFilter(new_products', current, IdSet(previous))
             ELSE \A i \in SearchIdx :
                    IsFilter(new_by_search'[i], products_by_search[i], IdSet(previous)) ]_vars

\* A record of the second search is dropped because its id occurs in the
\* previous snapshot under the first search, while another one is kept.
C1_Witness ==
  /\ ~Single /\ pc = "notify"
  /\ \A k \in DOMAIN previous : previous[k].search = SEARCHES[1].name
  /\ \E k \in DOMAIN products_by_search[2] :
       products_by_search[2][k].id \in IdSet(previous)
  /\ new_by_search[2] # <<>>
  /\ Len(new_by_search[2]) < Len(products_by_search[2])

\* C2 as stated: a finished run with a non-empty extraction read the
\* snapshot before writing it, invoked the notifier once with the new
\* records iff there were any, and left the file holding the extraction.
C2_Original ==
  (pc = "done" /\ current # <<>>) =>
    /\ fileOps = <<"read", "write">>
    /\ notifyCalls = (IF AllNew # <<>> THEN 1 ELSE 0)
    /\ notifyCalls = 1 => notifyArg = NewValue
    /\ file = ListFile(current)

\* C2 (amended): as above, but the file holds the extraction when the write
\* succeeded; a failed open leaves the file as it was and a failed dump
\* leaves it unparseable.
C2_RunEffects ==
  (pc = "done" /\ current # <<>>) =>
    /\ fileOps = <<"read", "write">>
    /\ notifyCalls = (IF AllNew # <<>> THEN 1 ELSE 0)
    /\ notifyCalls = 1 => notifyArg = NewValue
    /\ saveOutcome \in SaveOutcomes
    /\ saveOutcome = "ok" => file = ListFile(current)
    /\ saveOutcome = "open_failed" => file = fileAtStart
    /\ saveOutcome = "dump_failed" => file = Corrupt

\* previous [a1], current [a1, b2]: one notification for b2, snapshot [a1, b2].
C2_Witness ==
  /\ Single /\ pc = "done"
  /\ Len(previous) = 1 /\ Len(current) = 2
  /\ current[1] = previous[1]
  /\ new_products = <<current[2]>>
  /\ notifyCalls = 1 /\ notifyArg = <<current[2]>>
  /\ file = ListFile(current)

\* This run has got as far as the diff.
Diffed == pc \in {"notify", "save", "done"}

\* C3 as stated: a run whose extraction equals that of the preceding run
\* computes no new record and sends no notification.
C3_Original ==
  (sameAsLast /\ Diffed) => (AllNew = <<>> /\ notifyCalls = 0)

\* C3 (amended): ... provided the preceding run's write of the snapshot did
\* not fail and this run's load of it did not fail.
C3_Idempotent ==
  (sameAsLast /\ Diffed /\ lastSave \notin {"open_failed", "dump_failed"} /\ ~loadFailed)
    => (AllNew = <<>> /\ notifyCalls = 0)

\* A second run that extracted the same non-empty list and completed.
C3_Witness ==
  /\ run = 2 /\ sameAsLast /\ lastSave = "ok" /\ ~loadFailed
  /\ pc = "done" /\ outcome = "completed"
  /\ Len(current) = 2
  /\ notifyCalls = 0

\* C4 as stated: from the arming in main to the cancellation in main's
\* finally, unless it has fired, the run-level alarm is pending with the
\* run-level handler installed.
C4_WatchdogHeld ==
  (Single /\ pc \notin {"start", "done"} /\ ~fired) =>
    (alarm = RunBudget /\ sigHandler = "main")

\* C5 as stated: once the run-level timeout has fired the run is over:
\* no pipeline step follows, no session stays open, the exit code is not 0.
C5_TimeoutAborts ==
  fired =>
    /\ afterFire = {}
    /\ pc = "done" /\ outcome = "aborted"
    /\ session # "open"
    /\ exitCode # 0

\* C6: no run ends with its rendering session open.
C6_SessionReleased == pc = "done" => session # "open"

\* A run that started a session and ended through the early return on an
\* empty result.
C6_Witness ==
  /\ pc = "done" /\ session = "closed" /\ outcome = "empty" /\ ~Single

\* A finished run saved: the write was attempted after the read, and if it
\* succeeded the file holds the full extraction.
Persisted ==
  /\ outcome = "completed"
  /\ exitCode = 0
  /\ fileOps = <<"read", "write">>
  /\ saveOutcome = "ok" => file = ListFile(current)

\* C7: after a failed delivery the run goes on to the save and completes.
C7_DeliveryFailureContained ==
  delivery \in {"http_error", "exception"} =>
    /\ pc \in {"save", "done"}
    /\ pc = "done" => Persisted

C7_Witness ==
  /\ pc = "done" /\ delivery = "exception" /\ posts = 1
  /\ saveOutcome = "ok" /\ file = ListFile(current)

\* C8: with a credential missing the notifier sends nothing and raises
\* nothing, and the run goes on to the save and completes.
C8_Unconfigured ==
  creds \in {"no_token", "no_chat", "neither"} =>
    /\ posts = 0
    /\ notifyCalls = 1
    /\ pc \in {"save", "done"}
    /\ pc = "done" => Persisted

C8_Witness ==
  /\ pc = "done" /\ creds = "no_chat" /\ Len(AllNew) = 2
  /\ saveOutcome = "ok" /\ file = ListFile(current)

\* C9: a load that finds no usable file (missing, unreadable, unparseable)
\* returns the empty list; the run goes on and every current record is new.
C9_LoadNeverRaises ==
  loadFailed =>
    /\ previous = <<>>
    /\ pc \in {"diff", "notify", "save", "done"}
    /\ outcome \in {"running", "completed"}
    /\ Diffed => AllNew = current

C9_Witness ==
  /\ pc = "done" /\ loadFailed /\ fileAtStart = Corrupt
  /\ outcome = "completed" /\ Len(AllNew) = 2

\* C10: a run that extracted nothing neither read nor wrote the snapshot
\* file and notified nobody; a run that wrote had a non-empty extraction.
C10_EmptyRunLeavesSnapshot ==
  /\ (pc = "done" /\ current = <<>>) =>
       /\ file = fileAtStart
       /\ fileOps = <<>>
       /\ notifyCalls = 0 /\ posts = 0
  /\ "write" \in Range(fileOps) => current # <<>>

C10_Witness ==
  /\ pc = "done" /\ outcome = "empty" /\ current = <<>>
  /\ fileAtStart.kind = "list" /\ fileAtStart.records # <<>>
  /\ file = fileAtStart

\* get_products has returned to main (monitor.py).
Fetched ==
  /\ Single
  /\ \/ pc \in {"check", "diff", "notify", "save"}
     \/ pc = "done" /\ outcome \in {"empty", "completed", "error"}

MultiFetched ==
  /\ ~Single
  /\ \/ pc \in {"check", "diff", "notify", "save"}
     \/ pc = "done" /\ outcome \in {"empty", "completed"}

AllSearches == [k \in SearchIdx |-> k]

\* The searches are processed in order on the open session, before any
\* access to the snapshot and any notification, and what they returned,
\* failed or not, is what the run works on.
SearchesInOrder ==
  /\ (~Single /\ pc = "search") =>
       /\ session = "open"
       /\ visited = [k \in 1 .. idx - 1 |-> k]
  /\ (~Single /\ visited # AllSearches) =>
       /\ fileOps = <<>> /\ notifyCalls = 0
       /\ pc \notin {"diff", "notify", "save"}
  /\ MultiFetched =>
       /\ visited = AllSearches
       /\ current = Flatten(products_by_search, 1)

\* C14 as stated: every search is processed once, in order, on the shared
\* session, before diff, notification and persistence; a failed search
\* gives the records it had collected and the run still reaches the diff
\* and the save.
C14_Original ==
  /\ SearchesInOrder
  /\ (~Single /\ anyFailed /\ pc = "done") =>
       (outcome = "completed" /\ fileOps = <<"read", "write">>)

\* C14 (amended): ... a failed search gives the records it had collected,
\* the remaining searches are still processed, and the run reaches the diff
\* and the save provided the searches together gave at least one record;
\* with no record at all the run ends with exit code 1 before the load.
C14_SearchLoop ==
  /\ SearchesInOrder
  /\ (~Single /\ anyFailed) =>
       \/ pc \in {"search", "check", "diff", "notify"}
       \/ /\ pc = "done" /\ current = <<>>
          /\ outcome = "empty" /\ exitCode = 1 /\ fileOps = <<>>
  /\ (~Single /\ pc = "done" /\ visited = AllSearches /\ current # <<>>) =>
       (outcome = "completed" /\ fileOps = <<"read", "write">>)

\* A search failed, the first search gave nothing, the second one gave
\* records, and the run loaded the snapshot and diffed them.
C14_Witness ==
  /\ ~Single /\ anyFailed /\ pc = "notify"
  /\ visited = AllSearches
  /\ products_by_search[1] = <<>> /\ products_by_search[2] # <<>>
  /\ fileOps = <<"read">>
  /\ new_by_search[2] = products_by_search[2]

\* The snapshot holds only the extraction of the run that wrote it, and a
\* product that was saved and then left out of a saved extraction is new
\* again when it comes back.
NewMeansAbsentFromLastSave ==
  /\ (pc = "done" /\ saveOutcome = "ok") => file = ListFile(current)
  /\ (Diffed /\ trackedHist = "dropped" /\ TrackedId \in IdSet(current)) =>
       TrackedId \in IdSet(AllNew)

\* C19 as stated: 'new' means absent from the extraction saved last, so a
\* product that disappeared from a saved extraction is reported again when
\* it returns, and a product in the snapshot saved last is never reported.
C19_Original ==
  /\ NewMeansAbsentFromLastSave
  /\ (Diffed /\ fileAtStart.kind = "list") =>
       IdSet(AllNew) \cap IdSet(fileAtStart.records) = {}

\* C19 (amended): ... and a product in the snapshot saved last is never
\* reported by a run that could load that snapshot.
C19_NoCumulativeHistory ==
  /\ NewMeansAbsentFromLastSave
  /\ (Diffed /\ fileAtStart.kind = "list" /\ ~loadFailed) =>
       IdSet(AllNew) \cap IdSet(fileAtStart.records) = {}

\* The tracked product was in a saved extraction, the preceding run saved
\* a non-empty extraction without it, and this run, which loaded that
\* snapshot, reports it as new.
C19_Witness ==
  /\ run = 2 /\ pc = "notify" /\ trackedHist = "dropped"
  /\ lastSave = "ok" /\ ~loadFailed
  /\ fileAtStart.kind = "list" /\ fileAtStart.records # <<>>
  /\ TrackedId \in IdSet(AllNew)

(***************************************************************************)
(* Properties of the extraction pass.                                      *)
(***************************************************************************)
Produced == extraction.status = "returned"

Records == extraction.products

PassKeyword == IF page.target = 0 THEN Keyword ELSE SEARCHES[page.target].keyword

PassUrl == IF page.target = 0 THEN TargetUrl ELSE SEARCHES[page.target].url

\* The pass of the page's program, with the given fate of the debug dump.
PassOf(p, ok) ==
  IF p.target = 0 THEN get_products_selenium(p, ok)
  ELSE multi_get_products(p.target, p, ok)

\* C11 as stated: every record returned by a pass has a title of at most
\* 200 characters that contains the keyword of the pass.
C11_TitleBounded ==
  Produced =>
    \A k \in DOMAIN Records :
      /\ Len(Records[k].title) <= TitleCap
      /\ Contains(Records[k].title, PassKeyword)

\* Two records are computed from the same id input: the same title and, in
\* monitor.py, the same link.
SameIdInput(p, q) ==
  /\ p.title = q.title
  /\ page.target = 0 => p.link = q.link

\* C12 as stated: no two records returned by one pass share an id; in
\* particular no two of them are computed from the same id input.
C12_UniqueIds ==
  Produced =>
    \A j, k \in DOMAIN Records :
      (j # k /\ Records[j].id = Records[k].id) => ~SameIdInput(Records[j], Records[k])

\* The hrefs of the anchors found for the elements before position j.
EarlierHrefs(elems, j) ==
  { elems[k].href : k \in { m \in 1 .. j - 1 : elems[m].link_element } }

\* The stripped texts of the elements before position j.
EarlierTexts(elems, j) == { Strip(elems[k].text) : k \in 1 .. j - 1 }

\* monitor.py: every candidate that does not fail, shows the keyword and
\* whose link was not met on an earlier candidate has its record in the
\* result, whatever failed before or after it.
SingleCandidatesKept ==
  /\ \A j \in DOMAIN page.elements :
       LET e == page.elements[j]
       IN (/\ e.fault = "none"
           /\ Contains(Strip(e.text), Keyword)
           /\ e.link_element => e.href \notin EarlierHrefs(page.elements, j))
          => SingleProduct([title |-> Take(Normalize(e.text), TitleCap),
                            link |-> IF e.link_element THEN e.href ELSE <<>>])
               \in Range(Records)
  /\ Len(page.elements) < SecondaryThreshold =>
       \A j \in DOMAIN page.links :
         LET l == page.links[j]
         IN (/\ l.fault = "none"
             /\ Contains(Strip(l.text), Keyword)
             /\ l.href \notin EarlierHrefs(page.elements, Len(page.elements) + 1)
             /\ l.href \notin EarlierHrefs(page.links, j))
            => SingleProduct([title |-> Take(Normalize(l.text), TitleCap),
                              link |-> l.href])
                 \in Range(Records)

\* monitor_multi.py, when the scans are reached: every element whose text
\* can be read, is long enough, was not met before and has a keyword line
\* has its record in the result, with the search url as its link when the
\* walk through its ancestors fails; likewise every box of the MUI scan.
MultiCandidatesKept ==
  LET i == page.target
      kw == SEARCHES[i].keyword
      titled(t, default_link) ==
        \E r \in Range(Records) :
          /\ r.title = t /\ r.search = SEARCHES[i].name
          /\ default_link => r.link = SEARCHES[i].url
  IN /\ \A j \in DOMAIN page.elements :
          LET e == page.elements[j]
              text == Strip(e.text)
              title == Take(Strip(FirstLineWith(SplitLines(text), kw)), TitleCap)
          IN (/\ e.fault # "stale_text"
              /\ Len(text) >= MinTextLen
              /\ text \notin EarlierTexts(page.elements, j)
              /\ title # <<>>)
             => titled(title, e.fault = "no_parent")
     /\ Len(page.elements) < MuiThreshold =>
          \A j \in DOMAIN page.links :
            LET item == page.links[j]
                title == Take(FirstLineWith(SplitLines(item.text), kw), TitleCap)
            IN (/\ item.fault = "none"
                /\ Contains(item.text, kw)
                /\ item.text \notin EarlierTexts(page.elements, Len(page.elements) + 1)
                /\ item.text \notin { page.links[k].text : k \in 1 .. j - 1 })
               => titled(title, TRUE)

C16_DumpDiagnosticOnly ==
  Produced => Records = PassOf(page, ~dump_ok)

\* The non-empty hrefs the page offers for its candidates.
PageHrefs ==
  { page.elements[k].href : k \in DOMAIN page.elements } \cup
  { page.links[k].href : k \in DOMAIN page.links }

\* C17 as stated: the link of every record is an href found on the page
\* or the url of the search page, and is never empty.
C17_LinkNeverEmpty ==
  Produced =>
    \A k \in DOMAIN Records :
      /\ Records[k].link # <<>>
      /\ Records[k].link \in (PageHrefs \ {<<>>}) \cup {PassUrl}

(***************************************************************************)
(* Properties of the message composition.                                  *)
(***************************************************************************)
Composed == message # NoMessage

\* The parts of a message made from the list news with the caps given:
\* the first cap records in order, and the suffix iff there are more.
CappedList(shown, suffix, news, cap) ==
  /\ Len(shown) = (IF Len(news) < cap THEN Len(news) ELSE cap)
  /\ (suffix # <<>>) <=> (Len(news) > cap)
  /\ suffix # <<>> => suffix = <<Len(news) - cap>>

\* t is the title s cut to cap characters.
CutTo(t, s, cap) ==
  /\ Len(t) <= cap
  /\ Len(t) = (IF Len(s) < cap THEN Len(s) ELSE cap)
  /\ \A c \in DOMAIN t : t[c] = s[c]

\* C18: the message lists the first 10 new records (the first 3 of each
\* search in monitor_multi.py) with titles cut to 100 (60) characters, and
\* has an omitted-items suffix iff there are more records than that, which
\* states their number minus the cap.
C18_MessageCapped ==
  Composed =>
    IF outbox.target = 0
      THEN /\ CappedList(message.items, message.more, outbox.news, ItemCap)
           /\ \A k \in DOMAIN message.items :
                /\ CutTo(message.items[k].title, outbox.news[k].title, ItemTitleCap)
                /\ message.items[k].link = outbox.news[k].link
      ELSE \A i \in SearchIdx :
             LET section == message.sections[i]
             IN /\ CappedList(section.items, section.more, outbox.news[i], SearchItemCap)
                /\ \A k \in DOMAIN section.items :
                     CutTo(section.items[k], outbox.news[i][k].title, SearchTitleCap)

\* Eleven new records, the second with a title of 200 characters: ten
\* items, the second cut to 100 characters, and "1 more".
C18_Witness ==
  /\ Composed /\ outbox.target = 0
  /\ Len(outbox.news) = ItemCap + 1
  /\ Len(outbox.news[2].title) = TitleCap
  /\ Len(message.items) = ItemCap
  /\ Len(message.items[2].title) = ItemTitleCap
  /\ message.more = <<1>>

====
